---- MODULE Spec2Model ----
(***************************************************************************)
(* Haptic Feedback Pattern Engine (src/src/haptic_engine.py).              *)
(*                                                                         *)
(* The store is the SQLite database behind HapticEngine: the table         *)
(* patterns (id PRIMARY KEY, name UNIQUE) and the table playback_log       *)
(* (AUTOINCREMENT id).  Every public method of HapticEngine is one action. *)
(*                                                                         *)
(* Encodings.  A name is a tuple of one-character strings, so that         *)
(* name.lower().replace(' ', '_') is computed character by character.      *)
(* An identifier is the tuple of the parts its f-string joins:             *)
(*   f"preset_{name}"        is  <<"preset", name>>                        *)
(*   f"pattern_{slug}_{n}"   is  <<"pattern", slug, n>>                    *)
(*   f"composed_{t}"         is  <<"composed", t>>                         *)
(* Two such strings are equal exactly when their tuples are: the prefixes  *)
(* differ in their first letters and n is all that follows the last "_".   *)
(* A step is a record whose fields are the keys the dict carries (a dict   *)
(* may omit keys).  Intensities are in tenths (0.6 is 6).                  *)
(***************************************************************************)
EXTENDS Integers, Sequences, FiniteSets, TLC

VARIABLES
    patterns,       \* committed rows of table patterns
    playback_log,   \* rows of table playback_log, in insertion order
    clock,          \* last value datetime.now() returned, in milliseconds
    engine,         \* TRUE once a HapticEngine has been constructed on the store
    last,           \* the last call and how it ended: exception raised or value returned
    seeder,         \* per concurrently starting instance: position in _init_presets
    pending,        \* per instance: rows inserted and not yet committed
    lock            \* the instance holding SQLite's write lock, 0 when free

vars == <<patterns, playback_log, clock, engine, last, seeder, pending, lock>>

-----------------------------------------------------------------------------
(* Bounds of the model *)

MaxTick == 0        \* the clock reads 0..MaxTick milliseconds into a 10 s window
MaxWrap == 0        \* number of later 10 s windows the clock can reach
MaxRepeat == 2      \* repeat arguments 1..MaxRepeat
MaxLog == 2         \* playback_log rows
MaxCompose == 2     \* length of the identifier list given to compose
MaxCreated == 1     \* identifiers stored by create_pattern
MaxCalcLen == 2     \* steps of a sequence given to _calculate_duration on its own
MaxCalcRepeat == 2  \* repeat arguments 0..MaxCalcRepeat given to it

-----------------------------------------------------------------------------
(* Program constants *)

VALID_CATEGORIES == {"notification", "game", "media", "accessibility", "navigation"}

VALID_SEQUENCE_TYPES == {"pulse", "buzz", "tap", "rumble"}

IdModulus == 10000

DefaultIntensity == 5

Step(t, d, i, p) == [type |-> t, duration_ms |-> d, intensity |-> i, pause_after_ms |-> p]

PRESETS ==
<<
    [ name |-> <<"n", "o", "t", "i", "f", "i", "c", "a", "t", "i", "o", "n">>,
      category |-> "notification", description |-> "Subtle notification pulse",
      sequence |-> << Step("pulse", 50, 6, 50), Step("pulse", 50, 6, 0) >>,
      repeat |-> 1 ],
    [ name |-> <<"s", "u", "c", "c", "e", "s", "s">>,
      category |-> "notification", description |-> "Success confirmation pattern",
      sequence |-> << Step("pulse", 100, 8, 50), Step("pulse", 100, 8, 0) >>,
      repeat |-> 1 ],
    [ name |-> <<"e", "r", "r", "o", "r">>,
      category |-> "notification", description |-> "Error alert pattern",
      sequence |-> << Step("buzz", 200, 10, 100), Step("buzz", 200, 10, 0) >>,
      repeat |-> 1 ],
    [ name |-> <<"w", "a", "r", "n", "i", "n", "g">>,
      category |-> "notification", description |-> "Warning pattern",
      sequence |-> << Step("tap", 75, 7, 75), Step("tap", 75, 7, 75), Step("tap", 75, 7, 0) >>,
      repeat |-> 1 ],
    [ name |-> <<"h", "e", "a", "r", "t", "b", "e", "a", "t">>,
      category |-> "media", description |-> "Heartbeat simulation",
      sequence |-> << Step("pulse", 100, 8, 100), Step("pulse", 100, 8, 300) >>,
      repeat |-> 2 ],
    [ name |-> <<"e", "n", "g", "i", "n", "e", "_", "r", "e", "v">>,
      category |-> "game", description |-> "Engine revving effect",
      sequence |-> << Step("rumble", 200, 5, 50), Step("rumble", 200, 7, 50), Step("rumble", 200, 9, 0) >>,
      repeat |-> 1 ],
    [ name |-> <<"r", "a", "i", "n">>,
      category |-> "media", description |-> "Rain drops effect",
      sequence |-> << Step("tap", 30, 4, 100), Step("tap", 30, 4, 80), Step("tap", 30, 4, 120) >>,
      repeat |-> 3 ],
    [ name |-> <<"t", "y", "p", "i", "n", "g">>,
      category |-> "accessibility", description |-> "Key press feedback",
      sequence |-> << Step("tap", 25, 5, 0) >>,
      repeat |-> 1 ],
    [ name |-> <<"e", "x", "p", "l", "o", "s", "i", "o", "n">>,
      category |-> "game", description |-> "Explosion impact",
      sequence |-> << Step("rumble", 300, 10, 100), Step("pulse", 200, 6, 0) >>,
      repeat |-> 1 ],
    [ name |-> <<"g", "e", "n", "t", "l", "e", "_", "t", "a", "p">>,
      category |-> "notification", description |-> "Gentle single tap",
      sequence |-> << Step("tap", 50, 3, 0) >>,
      repeat |-> 1 ]
>>

PresetIndex == 1..Len(PRESETS)

NULL == -1      \* SQL NULL in an INTEGER or TEXT column that otherwise holds a number

None == [none |-> TRUE]     \* Python's None, where a dict is expected

-----------------------------------------------------------------------------
(* Inputs of the calls *)

Timestamps == { a + IdModulus * b : a \in 0..MaxTick, b \in 0..MaxWrap }

\* two names of one slug, and the name of a preset
NameInputs == { <<"A", " ", "b">>, <<"a", "_", "b">>, <<"r", "a", "i", "n">> }

CategoryInputs == {"game", "invalid_category"}

SequenceInputs ==
    { << [type |-> "tap", duration_ms |-> 50, intensity |-> 3],
         Step("buzz", 100, 5, 20) >>,
      << [type |-> "pulse", intensity |-> 5, pause_after_ms |-> 10] >>,
      << Step("tap", 50, 3, 0), Step("zap", 10, 5, 0) >>,
      << [duration_ms |-> 10, intensity |-> 5] >> }

DescriptionInputs == {"user pattern"}

RepeatInputs == 1..MaxRepeat

DeviceInputs == {"watch"}

-----------------------------------------------------------------------------
(* Pure helpers *)

\* dict.get(k, default)
Get(d, k, default) == IF k \in DOMAIN d THEN d[k] ELSE default

RECURSIVE SumDurations(_)
SumDurations(sequence) ==
    IF sequence = << >> THEN 0
    ELSE Get(Head(sequence), "duration_ms", 0) + Get(Head(sequence), "pause_after_ms", 0)
         + SumDurations(Tail(sequence))

\* a repeat of 0 taken for 1
calculate_duration_RepeatOrOne(sequence, repeat) ==
    SumDurations(sequence) * (IF repeat = 0 THEN 1 ELSE repeat)

calculate_duration(sequence, repeat) == SumDurations(sequence) * repeat

UpperCase == <<"A", "B", "C", "D", "E", "F", "G", "H", "I", "J", "K", "L", "M",
               "N", "O", "P", "Q", "R", "S", "T", "U", "V", "W", "X", "Y", "Z">>

LowerCase == <<"a", "b", "c", "d", "e", "f", "g", "h", "i", "j", "k", "l", "m",
               "n", "o", "p", "q", "r", "s", "t", "u", "v", "w", "x", "y", "z">>

\* str.lower(), one character
LowerChar(c) ==
    IF \E i \in DOMAIN UpperCase : UpperCase[i] = c
    THEN LowerCase[CHOOSE i \in DOMAIN UpperCase : UpperCase[i] = c]
    ELSE c

\* name.lower().replace(' ', '_')
Slug(name) ==
    [i \in DOMAIN name |-> IF LowerChar(name[i]) = " " THEN "_" ELSE LowerChar(name[i])]

\* f"pattern_{name.lower().replace(' ', '_')}_{int(now * 1000) % 10000}"
PatternId(name, t) == <<"pattern", Slug(name), t % IdModulus>>

\* f"preset_{preset_name}"
PresetId(preset_name) == <<"preset", preset_name>>

\* f"composed_{int(now * 1000)}"
ComposedId(t) == <<"composed", t>>

\* json.dumps of a list of dicts: per step, its key/value pairs
json_dumps(sequence) ==
    [i \in DOMAIN sequence |-> { <<k, sequence[i][k]>> : k \in DOMAIN sequence[i] }]

\* json.loads of such a text
json_loads(text) ==
    [i \in DOMAIN text |->
        [k \in { kv[1] : kv \in text[i] } |-> (CHOOSE kv \in text[i] : kv[1] = k)[2]]]

-----------------------------------------------------------------------------
(* The store *)

\* SELECT ... FROM patterns WHERE id = ?  (fetchone)
SelectById(store, id) == { r \in store : r.id = id }

\* the lookup comparing the wrong column
SelectByName_WrongColumn(store, name) == { r \in store : r.id = name }

\* SELECT id FROM patterns WHERE name = ?
SelectByName(store, name) == { r \in store : r.name = name }

\* a table whose name column is not UNIQUE: only the key id is enforced
Violates_IdOnly(store, row) == \E r \in store : r.id = row.id

\* a table whose id column is no key: only name UNIQUE is enforced
Violates_NameOnly(store, row) == \E r \in store : r.name = row.name

\* id TEXT PRIMARY KEY, name TEXT NOT NULL UNIQUE: the INSERT raises IntegrityError
Violates(store, row) == \E r \in store : r.id = row.id \/ r.name = row.name

\* an INSERT that leaves the repeat column to its DEFAULT 1
Row_RepeatDefault(id, name, category, description, sequence, duration_ms, repeat, created_at, preset) ==
    [ id |-> id, name |-> name, category |-> category, description |-> description,
      sequence |-> json_dumps(sequence), duration_ms |-> duration_ms,
      intensity |-> DefaultIntensity, repeat |-> 1,
      created_at |-> created_at, preset |-> preset ]

Row(id, name, category, description, sequence, duration_ms, repeat, created_at, preset) ==
    [ id |-> id, name |-> name, category |-> category, description |-> description,
      sequence |-> json_dumps(sequence), duration_ms |-> duration_ms,
      intensity |-> DefaultIntensity, repeat |-> repeat,
      created_at |-> created_at, preset |-> preset ]

PresetRow(i) ==
    Row(PresetId(PRESETS[i].name), PRESETS[i].name, PRESETS[i].category,
        PRESETS[i].description, PRESETS[i].sequence,
        calculate_duration(PRESETS[i].sequence, PRESETS[i].repeat),
        PRESETS[i].repeat, NULL, 1)

\* _init_presets run to its end by one instance on its own: presets i..10 are
\* looked up by name and inserted when absent.  An INSERT the store refuses
\* raises before the commit, so nothing of the run is kept.
RECURSIVE InitPresetsFrom(_, _, _)
InitPresetsFrom(committed, store, i) ==
    IF i > Len(PRESETS) THEN [error |-> "", store |-> store]
    ELSE IF SelectByName(store, PRESETS[i].name) # {}
         THEN InitPresetsFrom(committed, store, i + 1)
    ELSE IF Violates(store, PresetRow(i))
         THEN [error |-> "IntegrityError", store |-> committed]
    ELSE InitPresetsFrom(committed, store \cup {PresetRow(i)}, i + 1)

\* the table emptied and seeded again on every construction
init_presets_Rebuild(store) == InitPresetsFrom({}, {}, 1)

init_presets(store) == InitPresetsFrom(store, store, 1)

Created(store) == { r \in store : r.id[1] = "pattern" }

Ids(store) == { r.id : r \in store }

\* identifiers a caller passes to play, compose, get_pattern and export_json
IdInputs ==
    { PresetId(PRESETS[5].name), <<"nonexistent-id">> }
        \cup { r.id : r \in { q \in patterns : q.preset = 0 } }

RECURSIVE Lists(_)
Lists(n) ==
    IF n = 0 THEN { << >> }
    ELSE Lists(n - 1) \cup { Append(l, id) : l \in { m \in Lists(n - 1) : Len(m) = n - 1 }, id \in IdInputs }

-----------------------------------------------------------------------------
(* Initial state: a store no engine has opened yet *)

NoCall == [op |-> "none", outcome |-> ""]

Idle == [pc |-> "idle", i |-> 1]

Instances == {1, 2}

Init ==
    /\ patterns = {}
    /\ playback_log = << >>
    /\ clock = 0
    /\ engine = FALSE
    /\ last = NoCall
    /\ seeder = [s \in Instances |-> Idle]
    /\ pending = [s \in Instances |-> {}]
    /\ lock = 0

-----------------------------------------------------------------------------
(* Operations of one engine instance *)

\* how a call ended: the exception it raised, or the value it returned
Raised(op, exception) == [op |-> op, outcome |-> exception]

Returned(op, result) == [op |-> op, outcome |-> "ok", result |-> result]

\* HapticEngine.__init__: _init_db creates the tables when absent, _init_presets
\* seeds the presets
Construct ==
    /\ patterns' = init_presets(patterns).store
    /\ engine' = (engine \/ init_presets(patterns).error = "")
    /\ last' = IF init_presets(patterns).error = "" THEN Returned("init", None)
               ELSE Raised("init", init_presets(patterns).error)
    /\ UNCHANGED <<playback_log, clock, seeder, pending, lock>>

\* validation that looks at the first step only
ValidInput_FirstStep(category, sequence) ==
    /\ category \in VALID_CATEGORIES
    /\ sequence # << >> => Get(sequence[1], "type", "None") \in VALID_SEQUENCE_TYPES

ValidInput(category, sequence) ==
    /\ category \in VALID_CATEGORIES
    /\ \A i \in DOMAIN sequence : Get(sequence[i], "type", "None") \in VALID_SEQUENCE_TYPES

create_pattern(name, category, sequence, description, repeat) ==
    /\ engine
    /\ IF ~ValidInput(category, sequence)
       THEN /\ last' = Raised("create_pattern", "ValueError")
            /\ UNCHANGED <<patterns, clock>>
       ELSE /\ \E t1 \in Timestamps, t2 \in Timestamps :
                /\ clock <= t1 /\ t1 <= t2
                /\ clock' = t2
                /\ LET pattern_id == PatternId(name, t1)
                       row == Row(pattern_id, name, category, description, sequence,
                                  calculate_duration(sequence, repeat), repeat, t2, 0)
                   IN IF Violates(patterns, row)
                      THEN /\ last' = Raised("create_pattern", "IntegrityError")
                           /\ UNCHANGED patterns
                      ELSE /\ Cardinality(Ids(Created(patterns)) \cup {pattern_id}) <= MaxCreated
                           /\ patterns' = patterns \cup {row}
                           /\ last' = Returned("create_pattern", pattern_id)
    /\ UNCHANGED <<playback_log, engine, seeder, pending, lock>>

\* the cursor advanced by the step's duration only
RECURSIVE Timeline_NoPause(_, _, _)
Timeline_NoPause(sequence, i, current_time) ==
    IF i > Len(sequence) THEN << >>
    ELSE << [ time_ms |-> current_time, type |-> sequence[i]["type"],
              duration_ms |-> sequence[i]["duration_ms"],
              intensity |-> sequence[i]["intensity"] ] >>
         \o Timeline_NoPause(sequence, i + 1, current_time + sequence[i]["duration_ms"])

\* play's timeline loop from step i on, the cursor at current_time
RECURSIVE Timeline(_, _, _)
Timeline(sequence, i, current_time) ==
    IF i > Len(sequence) THEN << >>
    ELSE << [ time_ms |-> current_time, type |-> sequence[i]["type"],
              duration_ms |-> sequence[i]["duration_ms"],
              intensity |-> sequence[i]["intensity"] ] >>
         \o Timeline(sequence, i + 1,
                     current_time + sequence[i]["duration_ms"]
                                  + Get(sequence[i], "pause_after_ms", 0))

\* step["type"], step["duration_ms"] or step["intensity"] raises KeyError
MissingKey(sequence) ==
    \E i \in DOMAIN sequence : ~({"type", "duration_ms", "intensity"} \subseteq DOMAIN sequence[i])

\* INTEGER PRIMARY KEY AUTOINCREMENT: one more than the largest id ever used
NextLogId ==
    IF playback_log = << >> THEN 1
    ELSE 1 + (CHOOSE m \in { playback_log[i].id : i \in DOMAIN playback_log } :
                \A j \in DOMAIN playback_log : playback_log[j].id <= m)

\* an INSERT that leaves the duration_ms column out: it stays NULL
PlaybackLogRow_NoDuration(row, pattern_id, device, t) ==
    [ id |-> NextLogId, pattern_id |-> pattern_id, device |-> device,
      timestamp |-> t, duration_ms |-> NULL ]

\* the logged duration recomputed from one pass of the sequence
PlaybackLogRow_Recomputed(row, pattern_id, device, t) ==
    [ id |-> NextLogId, pattern_id |-> pattern_id, device |-> device,
      timestamp |-> t, duration_ms |-> calculate_duration(json_loads(row.sequence), 1) ]

\* INSERT INTO playback_log (pattern_id, device, timestamp, duration_ms)
PlaybackLogRow(row, pattern_id, device, t) ==
    [ id |-> NextLogId, pattern_id |-> pattern_id, device |-> device,
      timestamp |-> t, duration_ms |-> row.duration_ms ]

play(pattern_id, device) ==
    /\ engine
    /\ IF SelectById(patterns, pattern_id) = {}
       THEN /\ last' = Returned("play", [error |-> pattern_id])
            /\ UNCHANGED <<playback_log, clock>>
       ELSE LET row == CHOOSE r \in SelectById(patterns, pattern_id) : TRUE
                sequence == json_loads(row.sequence)
                duration_ms == row.duration_ms
            IN /\ Len(playback_log) < MaxLog
               /\ \E t \in Timestamps :
                    /\ clock <= t
                    /\ clock' = t
                    /\ playback_log' = Append(playback_log,
                                              PlaybackLogRow(row, pattern_id, device, t))
               /\ IF MissingKey(sequence)
                  THEN last' = Raised("play", "KeyError")
                  ELSE last' = Returned("play",
                          [ pattern_id |-> pattern_id, device |-> device,
                            total_duration_ms |-> duration_ms,
                            timeline |-> Timeline(sequence, 1, 0) ])
    /\ UNCHANGED <<patterns, engine, seeder, pending, lock>>

\* each resolved sequence put in front of what was collected
RECURSIVE Combine_Prepend(_, _, _, _)
Combine_Prepend(store, pattern_ids, i, acc) ==
    IF i > Len(pattern_ids) THEN acc
    ELSE IF SelectById(store, pattern_ids[i]) = {}
         THEN Combine_Prepend(store, pattern_ids, i + 1, acc)
    ELSE LET row == CHOOSE r \in SelectById(store, pattern_ids[i]) : TRUE
         IN Combine_Prepend(store, pattern_ids, i + 1,
                    [ combined_sequence |-> json_loads(row.sequence) \o acc.combined_sequence,
                      total_duration |-> acc.total_duration + row.duration_ms ])

\* the total taken from one pass over each resolved sequence, not from the
\* cached column
RECURSIVE Combine_OnePass(_, _, _, _)
Combine_OnePass(store, pattern_ids, i, acc) ==
    IF i > Len(pattern_ids) THEN acc
    ELSE IF SelectById(store, pattern_ids[i]) = {}
         THEN Combine_OnePass(store, pattern_ids, i + 1, acc)
    ELSE LET row == CHOOSE r \in SelectById(store, pattern_ids[i]) : TRUE
         IN Combine_OnePass(store, pattern_ids, i + 1,
                    [ combined_sequence |-> acc.combined_sequence \o json_loads(row.sequence),
                      total_duration |-> acc.total_duration
                                         + calculate_duration(json_loads(row.sequence), 1) ])

\* compose's lookup loop from position i on
RECURSIVE Combine(_, _, _, _)
Combine(store, pattern_ids, i, acc) ==
    IF i > Len(pattern_ids) THEN acc
    ELSE IF SelectById(store, pattern_ids[i]) = {}
         THEN Combine(store, pattern_ids, i + 1, acc)
    ELSE LET row == CHOOSE r \in SelectById(store, pattern_ids[i]) : TRUE
         IN Combine(store, pattern_ids, i + 1,
                    [ combined_sequence |-> acc.combined_sequence \o json_loads(row.sequence),
                      total_duration |-> acc.total_duration + row.duration_ms ])

ComposedName == <<"C", "o", "m", "p", "o", "s", "e", "d">>

compose(pattern_ids) ==
    /\ engine
    /\ \E t1 \in Timestamps, t2 \in Timestamps :
        /\ clock <= t1 /\ t1 <= t2
        /\ clock' = t2
        /\ LET acc == Combine(patterns, pattern_ids, 1,
                              [combined_sequence |-> << >>, total_duration |-> 0])
               composed_id == ComposedId(t1)
               row == Row(composed_id, ComposedName, "notification", "Composed pattern",
                          acc.combined_sequence, acc.total_duration, 1, t2, 0)
           IN IF Violates(patterns, row)
              THEN /\ last' = Raised("compose", "IntegrityError")
                   /\ UNCHANGED patterns
              ELSE /\ patterns' = patterns \cup {row}
                   /\ last' = Returned("compose", composed_id)
    /\ UNCHANGED <<playback_log, engine, seeder, pending, lock>>

\* a miss answered with a default record
GetResult_Default(store, pattern_id) ==
    IF SelectById(store, pattern_id) = {}
    THEN [ id |-> pattern_id, name |-> << >>, category |-> "", description |-> "",
           sequence |-> << >>, duration_ms |-> 0, intensity |-> DefaultIntensity,
           repeat |-> 1 ]
    ELSE LET row == CHOOSE r \in SelectById(store, pattern_id) : TRUE
         IN [ id |-> row.id, name |-> row.name, category |-> row.category,
              description |-> row.description, sequence |-> json_loads(row.sequence),
              duration_ms |-> row.duration_ms, intensity |-> row.intensity,
              repeat |-> row.repeat ]

GetResult(store, pattern_id) ==
    IF SelectById(store, pattern_id) = {} THEN None
    ELSE LET row == CHOOSE r \in SelectById(store, pattern_id) : TRUE
         IN [ id |-> row.id, name |-> row.name, category |-> row.category,
              description |-> row.description, sequence |-> json_loads(row.sequence),
              duration_ms |-> row.duration_ms, intensity |-> row.intensity,
              repeat |-> row.repeat ]

get_pattern(pattern_id) ==
    /\ engine
    /\ last' = Returned("get_pattern", GetResult(patterns, pattern_id))
    /\ UNCHANGED <<patterns, playback_log, clock, engine, seeder, pending, lock>>

EmptyDict == [k \in {} |-> 0]

ExportResult(store, pattern_id) ==
    LET pattern == GetResult(store, pattern_id)
    IN IF pattern = None THEN EmptyDict
       ELSE [ version |-> "1.0",
              pattern |-> [ id |-> pattern.id, name |-> pattern.name,
                            type |-> pattern.category,
                            totalDuration |-> pattern.duration_ms,
                            haptics |-> pattern.sequence ] ]

export_json(pattern_id) ==
    /\ engine
    /\ last' = Returned("export_json", ExportResult(patterns, pattern_id))
    /\ UNCHANGED <<patterns, playback_log, clock, engine, seeder, pending, lock>>

-----------------------------------------------------------------------------
(* One engine instance at a time *)

Next ==
    \/ Construct
    \/ \E name \in NameInputs, category \in CategoryInputs, sequence \in SequenceInputs,
          description \in DescriptionInputs, repeat \in RepeatInputs :
            create_pattern(name, category, sequence, description, repeat)
    \/ \E pattern_id \in IdInputs, device \in DeviceInputs : play(pattern_id, device)
    \/ \E pattern_ids \in Lists(MaxCompose) : compose(pattern_ids)
    \/ \E pattern_id \in IdInputs : get_pattern(pattern_id)
    \/ \E pattern_id \in IdInputs : export_json(pattern_id)

Spec == Init /\ [][Next]_vars

-----------------------------------------------------------------------------
(* Two instances starting on the same store: _init_presets statement by    *)
(* statement.  Each instance has its own connection.  A SELECT sees the    *)
(* committed rows and the connection's own uncommitted ones.  The first    *)
(* INSERT of a connection opens its transaction and takes SQLite's write   *)
(* lock, which it holds until its commit; an INSERT of the other           *)
(* connection waits for the lock and gives up with OperationalError        *)
(* ("database is locked") when the busy timeout runs out first.            *)

Visible(s) == patterns \cup pending[s]

SeedAdvance(s) ==
    IF seeder[s].i = Len(PRESETS)
    THEN [seeder EXCEPT ![s] = [pc |-> "commit", i |-> seeder[s].i]]
    ELSE [seeder EXCEPT ![s] = [pc |-> "select", i |-> seeder[s].i + 1]]

\* __init__ reaches _init_presets
SeedStart(s) ==
    /\ seeder[s].pc = "idle"
    /\ seeder' = [seeder EXCEPT ![s].pc = "select"]
    /\ UNCHANGED <<patterns, playback_log, clock, engine, last, pending, lock>>

\* cursor.execute("SELECT id FROM patterns WHERE name = ?"); if not cursor.fetchone()
SeedSelect(s) ==
    /\ seeder[s].pc = "select"
    /\ seeder' = IF SelectByName(Visible(s), PRESETS[seeder[s].i].name) # {}
                 THEN SeedAdvance(s)
                 ELSE [seeder EXCEPT ![s].pc = "insert"]
    /\ UNCHANGED <<patterns, playback_log, clock, engine, last, pending, lock>>

\* cursor.execute("INSERT INTO patterns ..."), the write lock free or its own
SeedInsert(s) ==
    /\ seeder[s].pc = "insert"
    /\ lock \in {0, s}
    /\ IF Violates(Visible(s), PresetRow(seeder[s].i))
       THEN \* the exception leaves __init__: the connection is dropped, its
            \* transaction rolled back
            /\ seeder' = [seeder EXCEPT ![s].pc = "IntegrityError"]
            /\ pending' = [pending EXCEPT ![s] = {}]
            /\ lock' = 0
       ELSE /\ seeder' = SeedAdvance(s)
            /\ pending' = [pending EXCEPT ![s] = @ \cup {PresetRow(seeder[s].i)}]
            /\ lock' = s
    /\ UNCHANGED <<patterns, playback_log, clock, engine, last>>

\* the INSERT waited for the other connection's lock until the busy timeout
SeedBusy(s) ==
    /\ seeder[s].pc = "insert"
    /\ lock \notin {0, s}
    /\ seeder' = [seeder EXCEPT ![s].pc = "OperationalError"]
    /\ UNCHANGED <<patterns, playback_log, clock, engine, last, pending, lock>>

\* self.conn.commit()
SeedCommit(s) ==
    /\ seeder[s].pc = "commit"
    /\ patterns' = patterns \cup pending[s]
    /\ pending' = [pending EXCEPT ![s] = {}]
    /\ lock' = IF lock = s THEN 0 ELSE lock
    /\ seeder' = [seeder EXCEPT ![s].pc = "done"]
    /\ engine' = TRUE
    /\ UNCHANGED <<playback_log, clock, last>>

SeedNext ==
    \E s \in Instances :
        \/ SeedStart(s)
        \/ SeedSelect(s)
        \/ SeedInsert(s)
        \/ SeedBusy(s)
        \/ SeedCommit(s)

SeedSpec == Init /\ [][SeedNext]_vars

-----------------------------------------------------------------------------
(* _calculate_duration on its own: called with a sequence and a repeat, it
   returns *)

StepInputs == { Step("tap", d, 5, p) : d \in {0, 50}, p \in {0, 20} }

\* the sequences of at most n steps
RECURSIVE StepSequences(_)
StepSequences(n) ==
    IF n = 0 THEN { << >> }
    ELSE StepSequences(n - 1)
         \cup { Append(l, step) : l \in { m \in StepSequences(n - 1) : Len(m) = n - 1 },
                                  step \in StepInputs }

CalcInit ==
    /\ patterns = {}
    /\ playback_log = << >>
    /\ clock = 0
    /\ engine = FALSE
    /\ last \in { [op |-> "calculate_duration", outcome |-> "called",
                   sequence |-> sequence, repeat |-> repeat] :
                     sequence \in StepSequences(MaxCalcLen), repeat \in 0..MaxCalcRepeat }
    /\ seeder = [s \in Instances |-> Idle]
    /\ pending = [s \in Instances |-> {}]
    /\ lock = 0

Calculate ==
    /\ last.op = "calculate_duration"
    /\ last.outcome = "called"
    /\ last' = [ op |-> "calculate_duration", outcome |-> "ok",
                 sequence |-> last.sequence, repeat |-> last.repeat,
                 result |-> calculate_duration(last.sequence, last.repeat) ]
    /\ UNCHANGED <<patterns, playback_log, clock, engine, seeder, pending, lock>>

CalcSpec == CalcInit /\ [][Calculate]_vars

-----------------------------------------------------------------------------
(* Properties *)

Presets(store) == { r \in store : r.preset = 1 }

\* the Pattern's sequence as the store returns it
SequenceOf(r) == json_loads(r.sequence)

\* sum of duration_ms + pause_after_ms over steps 1..n of a sequence
RECURSIVE PrefixTotal(_, _)
PrefixTotal(sequence, n) ==
    IF n = 0 THEN 0
    ELSE PrefixTotal(sequence, n - 1)
         + (IF "duration_ms" \in DOMAIN sequence[n] THEN sequence[n].duration_ms ELSE 0)
         + (IF "pause_after_ms" \in DOMAIN sequence[n] THEN sequence[n].pause_after_ms ELSE 0)

\* C1: every stored Pattern's duration_ms is repeat times the sum of
\* duration_ms + pause_after_ms over its own stored sequence.
C1_DurationConsistent ==
    \A r \in patterns :
        r.duration_ms = r.repeat * PrefixTotal(SequenceOf(r), Len(SequenceOf(r)))

\* C2: every compose call succeeds and adds exactly one new Pattern, of
\* category notification and repeat 1.
C2_ComposeAlwaysSucceeds ==
    [][ last'.op = "compose" =>
            /\ last'.outcome = "ok"
            /\ \E r \in patterns' :
                /\ r \notin patterns
                /\ patterns' = patterns \cup {r}
                /\ r.id = last'.result
                /\ r.category = "notification"
                /\ r.repeat = 1 ]_vars

\* C3: two instances seeding concurrently leave at most one row per preset
\* name and neither ends with a uniqueness violation.
C3_ConcurrentSeedingSafe ==
    /\ \A i \in PresetIndex : Cardinality(SelectByName(patterns, PRESETS[i].name)) <= 1
    /\ \A s \in Instances : seeder[s].pc # "IntegrityError"

\* C4: the first seeding of an empty store leaves exactly ten preset Patterns,
\* one per built-in name; whatever is called afterwards, seeding included, the
\* preset Patterns are those same ten rows, and seeding never fails.
C4_SeedingIdempotent ==
    /\ engine =>
        /\ Cardinality(Presets(patterns)) = 10
        /\ \A i \in PresetIndex :
             Cardinality({ r \in Presets(patterns) : r.name = PRESETS[i].name }) = 1
        /\ Presets(patterns) = init_presets({}).store
    /\ last.op = "init" => last.outcome = "ok"

C4_Witness ==
    /\ last.op = "init"
    /\ Created(patterns) # {}
    /\ \E r \in patterns : r.id[1] = "composed"
    /\ playback_log # << >>

\* the claim's own reading of a malformed creation input
InvalidCreation(category, sequence) ==
    \/ category \notin {"notification", "game", "media", "accessibility", "navigation"}
    \/ \E i \in DOMAIN sequence :
         \/ "type" \notin DOMAIN sequence[i]
         \/ sequence[i].type \notin {"pulse", "buzz", "tap", "rumble"}

\* C5: a create_pattern call with an invalid category, or with an invalid step
\* kind at any position, ends with a validation error and leaves the stored
\* Patterns and the playback log as they were.
C5_CreateAllOrNothing ==
    [][ last'.op = "create_pattern" =>
        \A category \in CategoryInputs, sequence \in SequenceInputs :
            ( /\ InvalidCreation(category, sequence)
              /\ \E name \in NameInputs, description \in DescriptionInputs,
                    repeat \in RepeatInputs :
                    create_pattern(name, category, sequence, description, repeat) )
            => /\ last'.outcome = "ValueError"
               /\ patterns' = patterns
               /\ playback_log' = playback_log ]_vars

C5_Witness ==
    /\ last.op = "create_pattern"
    /\ last.outcome = "ValueError"
    /\ Created(patterns) # {}
    /\ playback_log # << >>

\* C6: every create_pattern call with a valid category and valid step kinds
\* succeeds, stores exactly one new Pattern and returns an identifier no
\* stored Pattern had.
C6_ValidCreateSucceeds ==
    [][ last'.op = "create_pattern" =>
        \A name \in NameInputs, category \in CategoryInputs, sequence \in SequenceInputs,
           description \in DescriptionInputs, repeat \in RepeatInputs :
            ( /\ ~InvalidCreation(category, sequence)
              /\ create_pattern(name, category, sequence, description, repeat) )
            => /\ last'.outcome = "ok"
               /\ last'.result \notin Ids(patterns)
               /\ \E r \in patterns' :
                    /\ r.id = last'.result
                    /\ patterns' = patterns \cup {r} ]_vars

\* C7: for an identifier no stored Pattern has, play returns a not-found
\* result carrying the identifier, get_pattern returns None and export_json
\* an empty structure; none raises, and the stored Patterns and the playback
\* log stay as they were.
C7_MissChangesNothing ==
    [][ \A pattern_id \in IdInputs :
            SelectById(patterns, pattern_id) = {} =>
                /\ \A device \in DeviceInputs :
                     (last'.op = "play" /\ play(pattern_id, device))
                     => /\ last'.outcome = "ok"
                        /\ last'.result = [error |-> pattern_id]
                        /\ playback_log' = playback_log
                        /\ patterns' = patterns
                /\ (last'.op = "get_pattern" /\ get_pattern(pattern_id))
                     => /\ last'.outcome = "ok"
                        /\ last'.result = None
                        /\ playback_log' = playback_log
                        /\ patterns' = patterns
                /\ (last'.op = "export_json" /\ export_json(pattern_id))
                     => /\ last'.outcome = "ok"
                        /\ DOMAIN last'.result = {}
                        /\ playback_log' = playback_log
                        /\ patterns' = patterns ]_vars

C7_Witness ==
    /\ last.op = "play"
    /\ last.outcome = "ok"
    /\ "error" \in DOMAIN last.result
    /\ last.result.error \notin Ids(patterns)
    /\ playback_log # << >>

\* C8: a play of a stored Pattern that returns a result appends exactly one
\* log entry carrying the call's pattern_id and device and the Pattern's
\* cached duration_ms, and returns that duration as total_duration_ms; no
\* later step changes the duration_ms of an entry already in the log.
C8_PlayLogsCachedDuration ==
    [][ /\ \A pattern_id \in IdInputs, device \in DeviceInputs :
             ( /\ last'.op = "play"
               /\ SelectById(patterns, pattern_id) # {}
               /\ play(pattern_id, device)
               /\ last'.outcome = "ok" )
             => LET r == CHOOSE q \in patterns : q.id = pattern_id
                IN /\ Len(playback_log') = Len(playback_log) + 1
                   /\ SubSeq(playback_log', 1, Len(playback_log)) = playback_log
                   /\ playback_log'[Len(playback_log')].pattern_id = pattern_id
                   /\ playback_log'[Len(playback_log')].device = device
                   /\ playback_log'[Len(playback_log')].duration_ms = r.duration_ms
                   /\ last'.result.total_duration_ms = r.duration_ms
        /\ \A i \in DOMAIN playback_log :
             /\ i \in DOMAIN playback_log'
             /\ playback_log'[i].duration_ms = playback_log[i].duration_ms ]_vars

C8_Witness ==
    /\ last.op = "play"
    /\ last.outcome = "ok"
    /\ "timeline" \in DOMAIN last.result
    /\ Len(playback_log) = 2
    /\ playback_log[2].pattern_id = last.result.pattern_id
    /\ playback_log[2].duration_ms = 1200
    /\ playback_log[1].pattern_id # playback_log[2].pattern_id

\* C9: the timeline play returns for a Pattern with sequence S has one event
\* per step of S, in order; event i carries step i's kind, duration_ms and
\* intensity and starts at the sum of duration_ms + pause_after_ms over the
\* steps before i, whatever the Pattern's repeat.
C9_TimelineOnePass ==
    [][ \A pattern_id \in IdInputs, device \in DeviceInputs :
            ( /\ last'.op = "play"
              /\ SelectById(patterns, pattern_id) # {}
              /\ play(pattern_id, device)
              /\ last'.outcome = "ok" )
            => LET S == SequenceOf(CHOOSE q \in patterns : q.id = pattern_id)
                   timeline == last'.result.timeline
               IN /\ Len(timeline) = Len(S)
                  /\ \A i \in DOMAIN S :
                       /\ timeline[i].type = S[i].type
                       /\ timeline[i].duration_ms = S[i].duration_ms
                       /\ timeline[i].intensity = S[i].intensity
                       /\ timeline[i].time_ms = PrefixTotal(S, i - 1) ]_vars

C9_Witness ==
    /\ last.op = "play"
    /\ last.outcome = "ok"
    /\ "timeline" \in DOMAIN last.result
    /\ \E r \in patterns :
         /\ r.id = last.result.pattern_id
         /\ r.repeat > 1
         /\ Len(last.result.timeline) = 2
         /\ last.result.timeline[1].time_ms = 0
         /\ last.result.timeline[2].time_ms = 200

\* the stored sequences of the identifiers that resolve, concatenated in the
\* order of the list
RECURSIVE Concatenation(_, _)
Concatenation(store, pattern_ids) ==
    IF pattern_ids = << >> THEN << >>
    ELSE (IF \E r \in store : r.id = Head(pattern_ids)
          THEN SequenceOf(CHOOSE r \in store : r.id = Head(pattern_ids))
          ELSE << >>)
         \o Concatenation(store, Tail(pattern_ids))

\* C10: the sequence of the Pattern compose stores is the concatenation, in
\* the order of the list, of the stored sequences of the identifiers that
\* resolve; an unresolved identifier adds nothing, a repeated one adds its
\* sequence once per occurrence.
C10_ComposeConcatenates ==
    [][ \A pattern_ids \in Lists(MaxCompose) :
            ( /\ last'.op = "compose"
              /\ last'.outcome = "ok"
              /\ compose(pattern_ids) )
            => \E r \in patterns' :
                 /\ r.id = last'.result
                 /\ r \notin patterns
                 /\ SequenceOf(r) = Concatenation(patterns, pattern_ids) ]_vars

C10_Witness ==
    /\ last.op = "compose"
    /\ last.outcome = "ok"
    /\ \E r \in patterns, c \in Created(patterns) :
         /\ r.id = last.result
         /\ Len(SequenceOf(c)) = 2
         /\ SequenceOf(r) = SequenceOf(c) \o SequenceOf(CHOOSE h \in patterns : h.id = PresetId(PRESETS[5].name))

\* sum, over the positions of the list, of the duration_ms column of the row
\* the identifier resolves to; 0 for an identifier that resolves to nothing
RECURSIVE CachedSum(_, _)
CachedSum(store, pattern_ids) ==
    IF pattern_ids = << >> THEN 0
    ELSE (IF \E r \in store : r.id = Head(pattern_ids)
          THEN (CHOOSE r \in store : r.id = Head(pattern_ids)).duration_ms
          ELSE 0)
         + CachedSum(store, Tail(pattern_ids))

\* C11: the duration_ms of the Pattern compose stores is the sum of the stored
\* duration_ms of the identifiers that resolve, once per occurrence in the
\* list; an unresolved identifier adds 0.
C11_ComposeSumsCached ==
    [][ (last'.op = "compose" /\ last'.outcome = "ok") =>
        \A pattern_ids \in Lists(MaxCompose) :
            compose(pattern_ids)
            => \E r \in patterns' :
                 /\ r.id = last'.result
                 /\ r \notin patterns
                 /\ r.duration_ms = CachedSum(patterns, pattern_ids) ]_vars

C11_Witness ==
    /\ last.op = "compose"
    /\ last.outcome = "ok"
    /\ \E r \in patterns, c \in Created(patterns) :
         /\ r.id = last.result
         /\ c.repeat = 2
         /\ c.duration_ms = 340
         /\ r.duration_ms = 1200 + 340

\* C12: a create_pattern or compose call whose generated identifier is the id
\* of a stored Pattern ends with IntegrityError raised to the caller and
\* stores nothing (a create_pattern step that ends otherwise is no call with
\* valid input whose identifier was taken); whatever the call, every stored
\* Pattern stays the one row under its id, with all its fields.
C12_DuplicateIdSurfaced ==
    [][ /\ last'.op = "create_pattern" =>
            \/ /\ last'.outcome = "IntegrityError"
               /\ patterns' = patterns
            \/ \A name \in NameInputs :
                 (\A t \in Timestamps :
                     (clock <= t /\ t <= clock') => PatternId(name, t) \in Ids(patterns))
                 => \A category \in CategoryInputs, sequence \in SequenceInputs :
                      ~( /\ ~InvalidCreation(category, sequence)
                         /\ \E description \in DescriptionInputs, repeat \in RepeatInputs :
                               create_pattern(name, category, sequence, description, repeat) )
        /\ ( /\ last'.op = "compose"
              /\ \A t \in Timestamps :
                    (clock <= t /\ t <= clock') => ComposedId(t) \in Ids(patterns)
              /\ \E pattern_ids \in Lists(MaxCompose) : compose(pattern_ids) )
            => /\ last'.outcome = "IntegrityError"
               /\ patterns' = patterns
        /\ \/ patterns' = patterns
           \/ \A r \in patterns : { q \in patterns' : q.id = r.id } = {r} ]_vars

C12_Witness ==
    /\ last.op = "create_pattern"
    /\ last.outcome = "IntegrityError"
    /\ \E c \in Created(patterns) :
         /\ c.id = PatternId(<<"a", "_", "b">>, clock)
         /\ c.name = <<"A", " ", "b">>
    /\ \E r \in patterns : r.id = ComposedId(clock)

\* C13: every stored Pattern is, after any step (seeding, create_pattern,
\* compose, play or a read), still stored as one row with the same id, name,
\* category, sequence, duration_ms and repeat; a play step leaves the whole
\* table as it was, and a compose step leaves every row it read as it was.
C13_PatternsImmutable ==
    [][ /\ \/ patterns' = patterns
           \/ \A r \in patterns :
                \E q \in patterns' :
                    /\ q.id = r.id
                    /\ q.name = r.name
                    /\ q.category = r.category
                    /\ SequenceOf(q) = SequenceOf(r)
                    /\ q.duration_ms = r.duration_ms
                    /\ q.repeat = r.repeat
                    /\ \A p \in patterns' : p.id = r.id => p = q
        /\ last'.op = "play" => patterns' = patterns
        /\ last'.op = "compose" => patterns \subseteq patterns' ]_vars

C13_Witness ==
    /\ last.op = "compose"
    /\ last.outcome = "ok"
    /\ playback_log # << >>
    /\ Created(patterns) # {}
    /\ PresetRow(5) \in patterns
    /\ \E r \in patterns :
         /\ r.id = last.result
         /\ r.duration_ms = 2 * PresetRow(5).duration_ms
         /\ Len(SequenceOf(r)) = 2 * Len(PRESETS[5].sequence)

\* C14: the playback log is append-only: every step keeps the entries it found,
\* in place and with all their fields; a step adds exactly one entry when it
\* is a play that returns a playback result and none otherwise; and an added
\* entry's id is greater than the id of every entry before it.
C14_LogAppendOnly ==
    [][ /\ Len(playback_log') >= Len(playback_log)
        /\ SubSeq(playback_log', 1, Len(playback_log)) = playback_log
        /\ IF /\ last'.op = "play"
              /\ last'.outcome = "ok"
              /\ "timeline" \in DOMAIN last'.result
           THEN Len(playback_log') = Len(playback_log) + 1
           ELSE playback_log' = playback_log
        /\ \A j \in DOMAIN playback_log' \ DOMAIN playback_log :
             \A i \in DOMAIN playback_log : playback_log'[j].id > playback_log[i].id ]_vars

\* C17: a play call that ends with an exception instead of a result leaves the
\* playback log as it was, for every Pattern create_pattern stored.
C17_FailedPlayLogsNothing ==
    [][ (last'.op = "play" /\ last'.outcome # "ok") => playback_log' = playback_log ]_vars

\* C15: the record get_pattern would return for the identifier a create_pattern
\* call returned carries exactly the call's name, category, sequence (same
\* steps, same order), description and repeat; no later step changes what
\* get_pattern returns for an identifier already stored; and get_pattern
\* returns the stored row's fields.
C15_ReadYourWrites ==
    [][ /\ (last'.op = "create_pattern" /\ last'.outcome = "ok") =>
            \A name \in NameInputs, category \in CategoryInputs, sequence \in SequenceInputs,
               description \in DescriptionInputs, repeat \in RepeatInputs :
                create_pattern(name, category, sequence, description, repeat)
                => LET got == GetResult(patterns', last'.result)
                   IN /\ got # None
                      /\ got.name = name
                      /\ got.category = category
                      /\ Len(got.sequence) = Len(sequence)
                      /\ \A i \in DOMAIN sequence :
                           /\ DOMAIN got.sequence[i] = DOMAIN sequence[i]
                           /\ \A k \in DOMAIN sequence[i] : got.sequence[i][k] = sequence[i][k]
                      /\ got.description = description
                      /\ got.repeat = repeat
        /\ \/ patterns' = patterns
           \/ \A id \in Ids(patterns) : GetResult(patterns', id) = GetResult(patterns, id)
        /\ last'.op = "get_pattern" =>
            \A pattern_id \in IdInputs :
                (pattern_id \in Ids(patterns) /\ get_pattern(pattern_id))
                => \E r \in patterns' :
                     /\ r.id = pattern_id
                     /\ last'.result.name = r.name
                     /\ last'.result.category = r.category
                     /\ last'.result.sequence = SequenceOf(r)
                     /\ last'.result.description = r.description
                     /\ last'.result.repeat = r.repeat ]_vars

C15_Witness ==
    /\ last.op = "get_pattern"
    /\ last.result # None
    /\ last.result.id \in Ids(Created(patterns))
    /\ last.result.name = <<"A", " ", "b">>
    /\ last.result.repeat = 2
    /\ Len(last.result.sequence) = 2
    /\ DOMAIN last.result.sequence[1] = {"type", "duration_ms", "intensity"}
    /\ playback_log # << >>
    /\ \E r \in patterns : r.id[1] = "composed"

\* C16: for every sequence of steps with non-negative duration_ms and
\* pause_after_ms and every repeat >= 0, _calculate_duration returns a value,
\* and the value is repeat times the sum of duration_ms + pause_after_ms over
\* the steps: 0 for the empty sequence, 0 for repeat 0.
C16_TotalDurationExact ==
    /\ last.op = "calculate_duration" => last.outcome \in {"called", "ok"}
    /\ (last.op = "calculate_duration" /\ last.outcome = "ok") =>
        /\ last.result = last.repeat * PrefixTotal(last.sequence, Len(last.sequence))
        /\ last.sequence = << >> => last.result = 0
        /\ last.repeat = 0 => last.result = 0

C16_Witness ==
    /\ last.op = "calculate_duration"
    /\ last.outcome = "ok"
    /\ last.repeat = 0
    /\ Len(last.sequence) = 2
    /\ last.sequence[1].duration_ms = 50
    /\ last.sequence[2].pause_after_ms = 20
    /\ last.result = 0

Names(store) == { r.name : r \in store }

\* C18: no two stored Patterns share a name, presets included; a
\* create_pattern or compose call that would store a name some stored Pattern
\* has ends with IntegrityError and leaves the table as it was (a
\* create_pattern step that ends otherwise is no call with valid input whose
\* name was taken).
C18_NamesUnique ==
    [][ /\ \/ patterns' = patterns
           \/ \A r \in patterns', q \in patterns' : r.name = q.name => r = q
        /\ last'.op = "create_pattern" =>
            \/ /\ last'.outcome = "IntegrityError"
               /\ patterns' = patterns
            \/ \A name \in NameInputs :
                 name \in Names(patterns)
                 => \A category \in CategoryInputs, sequence \in SequenceInputs :
                      ~( /\ ~InvalidCreation(category, sequence)
                         /\ \E description \in DescriptionInputs, repeat \in RepeatInputs :
                               create_pattern(name, category, sequence, description, repeat) )
        /\ (last'.op = "compose" /\ ComposedName \in Names(patterns))
            => /\ last'.outcome = "IntegrityError"
               /\ patterns' = patterns ]_vars

C18_Witness ==
    /\ last.op = "create_pattern"
    /\ last.outcome = "IntegrityError"
    /\ Created(patterns) = {}
    /\ <<"r", "a", "i", "n">> \in Names(Presets(patterns))
    /\ ComposedName \in Names(patterns)

\* C19: the pattern_id of every playback_log entry is the id of a stored
\* Pattern, and the entry's duration_ms is that Pattern's duration_ms.
C19_LogRefersToPatterns ==
    \A i \in DOMAIN playback_log :
        /\ playback_log[i].pattern_id \in Ids(patterns)
        /\ \A r \in patterns :
             r.id = playback_log[i].pattern_id => playback_log[i].duration_ms = r.duration_ms

C19_Witness ==
    /\ Len(playback_log) = 2
    /\ playback_log[1].pattern_id \in Ids(Created(patterns))
    /\ playback_log[1].duration_ms = 340
    /\ playback_log[2].pattern_id[1] = "composed"
    /\ playback_log[2].duration_ms = 1200 + 340
    /\ last.op = "init"

====
